---- MODULE Spec2Model ----
(***************************************************************************)
(* Model of ansible/webhook.py: a Flask service with two POST endpoints.   *)
(* /alert (receive_alert) scans an Alertmanager batch for the first firing *)
(* TRIGGER_ALERT_NAME record and then calls run_ansible_playbook, which    *)
(* blocks in subprocess.run; /deploy (handle_webhook_direct) calls it      *)
(* unconditionally.  Every request is handled by its own thread; the only  *)
(* module-level data are the read-only configuration constants.            *)
(***************************************************************************)
EXTENDS Naturals, Sequences, FiniteSets

\* ---------------------------------------------------------------- bounds
\* Longest 'alerts' list of a payload in the single-request specification.
MaxAlerts == 3
\* Number of request slots (threads) in the concurrent specifications.
NumReqs == 2

Reqs == 1 .. NumReqs

\* ------------------------------------------------- configuration (l.10-13)
ANSIBLE_PLAYBOOK == "restart_service.yml"
ANSIBLE_INVENTORY == "inventory.ini"
SERVICE_NAME == "node-exporter"
TRIGGER_ALERT_NAME == "NodeExporterDown"

\* Python's None, and a JSON key that is not present.
None == "<None>"
Absent == "<absent>"
\* A JSON value that is present but is not an object (null, number, string, list).
NonDict == "<non-dict>"

\* ------------------------------------------------------------- payloads
\* One element of the 'alerts' list.  kind: whether the element is a JSON
\* object; labels: Absent, NonDict, or "dict" (then alertname is the value of
\* its 'alertname' key, Absent when the key is missing); status: the value of
\* 'status', Absent when the key is missing.
AlertNames == {Absent, TRIGGER_ALERT_NAME, "OtherAlert"}
Statuses == {Absent, "firing", "resolved"}

NonObjectRecord ==
    [kind |-> "nonobject", labels |-> Absent, alertname |-> Absent, status |-> Absent]

ObjectRecords ==
    [kind : {"object"}, labels : {"dict"}, alertname : AlertNames, status : Statuses]
    \cup [kind : {"object"}, labels : {Absent, NonDict}, alertname : {Absent},
          status : Statuses]

Records == ObjectRecords \cup {NonObjectRecord}

SeqsUpTo(S, n) == UNION {[1 .. k -> S] : k \in 0 .. n}

\* A request body.  json: "unparseable" (request.json raises), "nonobject"
\* (parses to something without .get), or "object"; alerts: Absent, "unsized"
\* (present, but len() of it raises: null, number, boolean) or "list".  A
\* string or an object under 'alerts' iterates over non-object elements and is
\* the "list" of that many NonObjectRecord.
ObjectBody(kind, list) ==
    [json |-> "object", alerts |-> kind, list |-> list]

BodiesOver(recs, n) ==
    {[json |-> j, alerts |-> Absent, list |-> <<>>] : j \in {"unparseable", "nonobject"}}
    \cup {ObjectBody(Absent, <<>>), ObjectBody("unsized", <<>>)}
    \cup {ObjectBody("list", l) : l \in SeqsUpTo(recs, n)}

Bodies == BodiesOver(Records, MaxAlerts)

Endpoints == {"alert", "deploy"}

\* ------------------------------------------------- external tool outcomes
\* What subprocess.run(..., capture_output=True, text=True, check=True) ends
\* with: kind "exit" (the tool ran and exited with returncode, leaving stdout
\* and stderr) or "error" (subprocess.run raised something other than
\* CalledProcessError: tool absent, permission denied, undecodable output;
\* exc is str(e)).
ExitOutcome(code, out, err) ==
    [kind |-> "exit", returncode |-> code, stdout |-> out, stderr |-> err, exc |-> ""]

ErrorOutcome(text) ==
    [kind |-> "error", returncode |-> 0, stdout |-> "", stderr |-> "", exc |-> text]

NoOutcome ==
    [kind |-> "none", returncode |-> 0, stdout |-> "", stderr |-> "", exc |-> ""]

Stdouts == {"PLAY RECAP ok=2", "changed=1"}
Stderrs == {"", "ERROR! playbook not found"}
ExitCodes == {0, 1, 2}
ExcTexts == {"[Errno 2] No such file or directory: 'ansible-playbook'"}

Outcomes ==
    {ExitOutcome(c, o, e) : c \in ExitCodes, o \in Stdouts, e \in Stderrs}
    \cup {ErrorOutcome(t) : t \in ExcTexts}

\* ----------------------------------------------------------------- state
VARIABLES
    pc,        \* per request: "idle", "received", "loop", "blocked", "returned", "done"
    endpoint,  \* per request: the route it was POSTed to
    body,      \* per request: the request body
    idx,       \* per request: position of the for loop of receive_alert (1-based)
    calls,     \* per request: the run_ansible_playbook invocations it made, in order
    proc,      \* per request: its subprocess.run call: "none", "running", "hung", "ended"
    outcome,   \* per request: how its subprocess.run call ended
    result,    \* per request: the (success, output) pair run_ansible_playbook returned
    response   \* per request: the HTTP responses emitted for it, in order

vars == <<pc, endpoint, body, idx, calls, proc, outcome, result, response>>

NoBody == [json |-> "unparseable", alerts |-> Absent, list |-> <<>>]
NoResult == [success |-> FALSE, output |-> None]

Init ==
    /\ pc = [r \in Reqs |-> "idle"]
    /\ endpoint = [r \in Reqs |-> "alert"]
    /\ body = [r \in Reqs |-> NoBody]
    /\ idx = [r \in Reqs |-> 1]
    /\ calls = [r \in Reqs |-> <<>>]
    /\ proc = [r \in Reqs |-> "none"]
    /\ outcome = [r \in Reqs |-> NoOutcome]
    /\ result = [r \in Reqs |-> NoResult]
    /\ response = [r \in Reqs |-> <<>>]

\* ------------------------------------------------ what the handlers compute
\* data.get('alerts', []): the list iterated by the for loop.
AlertsOf(b) == IF b.alerts = Absent THEN <<>> ELSE b.list

\* request.json raises (caught as Exception), data has no .get, or
\* len(data.get('alerts', [])) raises.
PayloadRaises(b) == b.json # "object" \/ b.alerts = "unsized"

\* Faulty variant: a null or scalar 'labels' is taken for an empty mapping,
\* as (alert.get('labels') or {}) would.
AlertRaises_nonobject_only(alert) == alert.kind # "object"

\* alert.get(...) on a non-object, or .get('alertname') on a 'labels' value
\* that is present and not an object, raises AttributeError.
AlertRaises(alert) == alert.kind # "object" \/ alert.labels = NonDict

\* alert.get('labels', {}).get('alertname')
alert_name(alert) ==
    IF alert.labels = Absent \/ alert.alertname = Absent THEN None ELSE alert.alertname

\* alert.get('status')
status_of(alert) == IF alert.status = Absent THEN None ELSE alert.status

\* Faulty variant: the status test is dropped, so a resolved alert triggers.
IsTrigger_ignores_status(alert) == alert_name(alert) = TRIGGER_ALERT_NAME

\* status == 'firing' and alert_name == TRIGGER_ALERT_NAME
IsTrigger(alert) ==
    status_of(alert) = "firing" /\ alert_name(alert) = TRIGGER_ALERT_NAME

\* Faulty variant: the two configuration names are confused.
service_to_fix_wrong == TRIGGER_ALERT_NAME

\* service_to_fix = SERVICE_NAME
service_to_fix == SERVICE_NAME

\* The argument vector run_ansible_playbook hands to subprocess.run.
ansible_command(service_name_to_restart) ==
    <<"ansible-playbook", ANSIBLE_PLAYBOOK, "-i", ANSIBLE_INVENTORY, "-e",
      "service_name=" \o service_name_to_restart>>

\* Faulty variant: the success branch returns result.stderr.
RunResult_stderr(o) ==
    IF o.kind = "exit" /\ o.returncode = 0
    THEN [success |-> TRUE, output |-> o.stderr]
    ELSE IF o.kind = "exit"
    THEN [success |-> FALSE, output |-> o.stderr]
    ELSE [success |-> FALSE, output |-> o.exc]

\* Faulty variant: the CalledProcessError branch returns e.output (the
\* captured standard output) instead of e.stderr.
RunResult_output(o) ==
    IF o.kind = "exit" /\ o.returncode = 0
    THEN [success |-> TRUE, output |-> o.stdout]
    ELSE IF o.kind = "exit"
    THEN [success |-> FALSE, output |-> o.stdout]
    ELSE [success |-> FALSE, output |-> o.exc]

\* The pair run_ansible_playbook returns once subprocess.run has ended with o.
RunResult(o) ==
    IF o.kind = "exit" /\ o.returncode = 0
    THEN [success |-> TRUE, output |-> o.stdout]
    ELSE IF o.kind = "exit"
    THEN [success |-> FALSE, output |-> o.stderr]
    ELSE [success |-> FALSE, output |-> o.exc]

\* jsonify(...), code.  field is the key that carries text ("" when the body
\* has the 'status' key alone).
Reply(code, status, field, text) ==
    [code |-> code, status |-> status, field |-> field, text |-> text]

GenericError == Reply(500, "Internal Server Error during processing", "", "")
NoAction == Reply(200, "Alert received, but no self-healing action triggered", "", "")

AlertReply(res) ==
    IF res.success
    THEN Reply(200, "Self-healing triggered and successful", "ansible_output", res.output)
    ELSE Reply(500, "Self-healing failed (Ansible error)", "ansible_error", res.output)

DeployReply(res) ==
    IF res.success
    THEN Reply(200, "Direct deployment successful", "ansible_output", res.output)
    ELSE Reply(500, "Direct deployment failed", "ansible_error", res.output)

\* ---------------------------------------------------------------- actions
\* return jsonify(...), code: the handler of request r ends with reply.
Return(r, reply) ==
    /\ response' = [response EXCEPT ![r] = Append(@, reply)]
    /\ pc' = [pc EXCEPT ![r] = "done"]

\* A POST arrives and Flask routes it to a handler thread.
Receive(r, ep, b) ==
    /\ pc[r] = "idle"
    /\ pc' = [pc EXCEPT ![r] = "received"]
    /\ endpoint' = [endpoint EXCEPT ![r] = ep]
    /\ body' = [body EXCEPT ![r] = b]
    /\ UNCHANGED <<idx, calls, proc, outcome, result, response>>

\* Faulty variant: the tool is started with Popen and not waited for; the
\* caller goes on at once with the pair it has.
run_ansible_playbook_async(r, service_name_to_restart) ==
    /\ calls' = [calls EXCEPT ![r] = Append(@,
                    [service |-> service_name_to_restart,
                     argv |-> ansible_command(service_name_to_restart)])]
    /\ proc' = [proc EXCEPT ![r] = "running"]
    /\ pc' = [pc EXCEPT ![r] = "returned"]

\* Faulty variant: a module-level lock lets one playbook run at a time.
run_ansible_playbook_serialised(r, service_name_to_restart) ==
    /\ \A q \in Reqs \ {r} : proc[q] # "running"
    /\ calls' = [calls EXCEPT ![r] = Append(@,
                    [service |-> service_name_to_restart,
                     argv |-> ansible_command(service_name_to_restart)])]
    /\ proc' = [proc EXCEPT ![r] = "running"]
    /\ pc' = [pc EXCEPT ![r] = "blocked"]

\* Entry of run_ansible_playbook up to the subprocess.run call, in which the
\* calling thread blocks.
run_ansible_playbook(r, service_name_to_restart) ==
    /\ calls' = [calls EXCEPT ![r] = Append(@,
                    [service |-> service_name_to_restart,
                     argv |-> ansible_command(service_name_to_restart)])]
    /\ proc' = [proc EXCEPT ![r] = "running"]
    /\ pc' = [pc EXCEPT ![r] = "blocked"]

\* Faulty variant: every record is read before the loop starts, so a raising
\* record anywhere in the batch ends the request.
receive_alert_begin_validating(r) ==
    /\ pc[r] = "received"
    /\ endpoint[r] = "alert"
    /\ IF \/ PayloadRaises(body[r])
          \/ \E i \in 1 .. Len(AlertsOf(body[r])) : AlertRaises(AlertsOf(body[r])[i])
       THEN /\ Return(r, GenericError)
            /\ UNCHANGED idx
       ELSE /\ pc' = [pc EXCEPT ![r] = "loop"]
            /\ idx' = [idx EXCEPT ![r] = 1]
            /\ UNCHANGED response
    /\ UNCHANGED <<endpoint, body, calls, proc, outcome, result>>

\* receive_alert: data = request.json and the len(...) of the first print;
\* an exception goes to the handler's except clause.
receive_alert_begin(r) ==
    /\ pc[r] = "received"
    /\ endpoint[r] = "alert"
    /\ IF PayloadRaises(body[r])
       THEN /\ Return(r, GenericError)
            /\ UNCHANGED idx
       ELSE /\ pc' = [pc EXCEPT ![r] = "loop"]
            /\ idx' = [idx EXCEPT ![r] = 1]
            /\ UNCHANGED response
    /\ UNCHANGED <<endpoint, body, calls, proc, outcome, result>>

\* receive_alert: one pass of the for loop over data.get('alerts', []), or
\* the statement after the loop when the list is exhausted.
receive_alert_iter(r) ==
    /\ pc[r] = "loop"
    /\ LET alerts == AlertsOf(body[r])
       IN  IF idx[r] > Len(alerts)
           THEN /\ Return(r, NoAction)
                /\ UNCHANGED <<idx, calls, proc>>
           ELSE IF AlertRaises(alerts[idx[r]])
           THEN /\ Return(r, GenericError)
                /\ UNCHANGED <<idx, calls, proc>>
           ELSE IF IsTrigger(alerts[idx[r]])
           THEN /\ run_ansible_playbook(r, service_to_fix)
                /\ UNCHANGED <<idx, response>>
           ELSE /\ idx' = [idx EXCEPT ![r] = @ + 1]
                /\ UNCHANGED <<pc, calls, proc, response>>
    /\ UNCHANGED <<endpoint, body, outcome, result>>

\* Faulty variant: /deploy parses its body as /alert does and gives up on a
\* body it cannot read.
handle_webhook_direct_filtered(r) ==
    /\ pc[r] = "received"
    /\ endpoint[r] = "deploy"
    /\ IF PayloadRaises(body[r])
       THEN /\ Return(r, GenericError)
            /\ UNCHANGED <<calls, proc>>
       ELSE /\ run_ansible_playbook(r, SERVICE_NAME)
            /\ UNCHANGED response
    /\ UNCHANGED <<endpoint, body, idx, outcome, result>>

\* handle_webhook_direct: the call of run_ansible_playbook(SERVICE_NAME); the
\* request body is never read.
handle_webhook_direct_begin(r) ==
    /\ pc[r] = "received"
    /\ endpoint[r] = "deploy"
    /\ run_ansible_playbook(r, SERVICE_NAME)
    /\ UNCHANGED <<endpoint, body, idx, outcome, result, response>>

\* subprocess.run ends with outcome o, and run_ansible_playbook returns its
\* pair through the try / except CalledProcessError / except Exception.
subprocess_run_ends(r, o) ==
    /\ pc[r] = "blocked"
    /\ proc[r] = "running"
    /\ proc' = [proc EXCEPT ![r] = "ended"]
    /\ outcome' = [outcome EXCEPT ![r] = o]
    /\ result' = [result EXCEPT ![r] = RunResult(o)]
    /\ pc' = [pc EXCEPT ![r] = "returned"]
    /\ UNCHANGED <<endpoint, body, idx, calls, response>>

\* The external process turns out never to exit: subprocess.run is given no
\* timeout, so the call never ends.
subprocess_hangs(r) ==
    /\ pc[r] = "blocked"
    /\ proc[r] = "running"
    /\ proc' = [proc EXCEPT ![r] = "hung"]
    /\ UNCHANGED <<pc, endpoint, body, idx, calls, outcome, result, response>>

\* Faulty variant: a failed run is retried once before it is reported.
receive_alert_respond_retry(r) ==
    /\ pc[r] = "returned"
    /\ endpoint[r] = "alert"
    /\ IF ~result[r].success /\ Len(calls[r]) < 2
       THEN /\ run_ansible_playbook(r, service_to_fix)
            /\ UNCHANGED response
       ELSE /\ Return(r, AlertReply(result[r]))
            /\ UNCHANGED <<calls, proc>>
    /\ UNCHANGED <<endpoint, body, idx, outcome, result>>

\* receive_alert: if success ... else ... after the call returned.
receive_alert_respond(r) ==
    /\ pc[r] = "returned"
    /\ endpoint[r] = "alert"
    /\ Return(r, AlertReply(result[r]))
    /\ UNCHANGED <<endpoint, body, idx, calls, proc, outcome, result>>

\* handle_webhook_direct: if success ... else ... after the call returned.
handle_webhook_direct_respond(r) ==
    /\ pc[r] = "returned"
    /\ endpoint[r] = "deploy"
    /\ Return(r, DeployReply(result[r]))
    /\ UNCHANGED <<endpoint, body, idx, calls, proc, outcome, result>>

\* A POST with one of the given payloads arrives for the free slot r.
Arrive(r, payloads) ==
    /\ pc[r] = "idle"
    /\ \E ep \in Endpoints, b \in payloads : Receive(r, ep, b)

\* subprocess.run of request r ends in one of the given ways.
Finish(r, outcomes) ==
    /\ pc[r] = "blocked"
    /\ \E o \in outcomes : subprocess_run_ends(r, o)

\* The steps of the handler thread of request r.
Handle(r) ==
    \/ receive_alert_begin(r)
    \/ receive_alert_iter(r)
    \/ handle_webhook_direct_begin(r)
    \/ receive_alert_respond(r)
    \/ handle_webhook_direct_respond(r)

\* ---------------------------------------------------------- specifications
\* One request, any endpoint, any payload, any outcome of the external tool.
Next ==
    \/ Arrive(1, Bodies)
    \/ Handle(1)
    \/ Finish(1, Outcomes)
    \/ subprocess_hangs(1)

Spec == Init /\ [][Next]_vars

\* Overlapping requests, each on its own thread, over a small set of payloads
\* and outcomes.
TriggerRecord ==
    [kind |-> "object", labels |-> "dict", alertname |-> TRIGGER_ALERT_NAME,
     status |-> "firing"]

OtherRecord ==
    [kind |-> "object", labels |-> "dict", alertname |-> "OtherAlert",
     status |-> "firing"]

ConcBodies ==
    {ObjectBody("list", <<OtherRecord>>),
     ObjectBody("list", <<OtherRecord, TriggerRecord>>),
     ObjectBody("list", <<NonObjectRecord>>)}

ConcOutcomes ==
    {ExitOutcome(0, "PLAY RECAP ok=2", ""), ExitOutcome(0, "changed=1", ""),
     ExitOutcome(2, "changed=1", "ERROR! playbook not found")}
    \cup {ErrorOutcome(t) : t \in ExcTexts}

ConcNext ==
    \E r \in Reqs :
        \/ Arrive(r, ConcBodies)
        \/ Handle(r)
        \/ Finish(r, ConcOutcomes)
        \/ subprocess_hangs(r)

ConcSpec == Init /\ [][ConcNext]_vars

\* A handler thread keeps being scheduled, and an external process that has
\* not hung exits.  No request is obliged to arrive.
Fairness ==
    \A r \in Reqs :
        /\ WF_vars(Handle(r))
        /\ WF_vars(Finish(r, ConcOutcomes))

LiveSpec == Init /\ [][ConcNext]_vars /\ Fairness

\* ------------------------------------------- vocabulary of the properties
\* Stated on the raw payload, independently of the handlers' own tests.

\* A record with status == 'firing' and labels.alertname == TRIGGER_ALERT_NAME.
Matches(rec) ==
    /\ rec.kind = "object"
    /\ rec.labels = "dict"
    /\ rec.alertname = "NodeExporterDown"
    /\ rec.status = "firing"

\* A record whose examination raises: not an object, or 'labels' present and
\* not an object.
Unreadable(rec) == rec.kind = "nonobject" \/ rec.labels = "<non-dict>"

\* A record with an expected field missing.
LacksField(rec) ==
    rec.kind = "object" /\ (rec.labels = "<absent>" \/ rec.status = "<absent>")

\* The body parses to an object whose alert batch can be walked.
HasBatch(b) == b.json = "object" /\ b.alerts # "unsized"

HasMatch(b) == HasBatch(b) /\ \E i \in 1 .. Len(b.list) : Matches(b.list[i])

HasUnreadable(b) == HasBatch(b) /\ \E i \in 1 .. Len(b.list) : Unreadable(b.list[i])

\* Position of the first record that matches or raises; 0 when there is none.
FirstDecisive(l) ==
    IF \E i \in 1 .. Len(l) : Matches(l[i]) \/ Unreadable(l[i])
    THEN CHOOSE i \in 1 .. Len(l) :
            /\ Matches(l[i]) \/ Unreadable(l[i])
            /\ \A j \in 1 .. i - 1 : ~(Matches(l[j]) \/ Unreadable(l[j]))
    ELSE 0

\* Verdict of /alert on a body: "error", "none" or "run".
Verdict(b) ==
    IF ~HasBatch(b) THEN "error"
    ELSE IF FirstDecisive(b.list) = 0 THEN "none"
    ELSE IF Unreadable(b.list[FirstDecisive(b.list)]) THEN "error"
    ELSE "run"

\* The body cut after its first matching or raising record.
Truncated(b) ==
    IF HasBatch(b) /\ FirstDecisive(b.list) > 0
    THEN [b EXCEPT !.list = SubSeq(b.list, 1, FirstDecisive(b.list))]
    ELSE b

PastCall(r) == pc[r] \in {"blocked", "returned", "done"}
Done(r) == pc[r] = "done"
IsAlert(r) == pc[r] # "idle" /\ endpoint[r] = "alert"
IsDeploy(r) == pc[r] # "idle" /\ endpoint[r] = "deploy"
OnceWithService(r) == Len(calls[r]) = 1 /\ calls[r][1].service = "node-exporter"
Succeeded(o) == o.kind = "exit" /\ o.returncode = 0
ExitedNonZero(o) == o.kind = "exit" /\ o.returncode # 0
FailedToRun(o) == o.kind = "error"

\* ------------------------------------------------------------------- C1
\* C1 as stated: every /alert request whose batch holds a matching record
\* has, once answered, invoked run_ansible_playbook exactly once with
\* SERVICE_NAME, whatever the other records are.
C1_AnyBatchWithMatchInvokesOnce ==
    \A r \in Reqs :
        (IsAlert(r) /\ Done(r) /\ HasMatch(body[r])) => OnceWithService(r)

\* C1 amended: an /alert request whose batch holds a matching record and no
\* raising record ahead of the first match never invokes run_ansible_playbook
\* more than once or with another argument than SERVICE_NAME, and has invoked
\* it exactly once when it is answered, however many records match.
C1_MatchInvokesOnce ==
    \A r \in Reqs :
        (IsAlert(r) /\ HasMatch(body[r]) /\ Verdict(body[r]) = "run") =>
            /\ Len(calls[r]) <= 1
            /\ \A i \in 1 .. Len(calls[r]) :
                   /\ calls[r][i].service = "node-exporter"
                   /\ calls[r][i].argv[6] = "service_name=node-exporter"
            /\ Done(r) => OnceWithService(r)

C1_Witness ==
    \E r \in Reqs :
        /\ IsAlert(r) /\ Done(r) /\ OnceWithService(r)
        /\ Len(body[r].list) = 3
        /\ Matches(body[r].list[2]) /\ Matches(body[r].list[3])
        /\ ~Matches(body[r].list[1])

\* ------------------------------------------------------------------- C2
\* C2 as stated: every /alert request whose batch holds no matching record is
\* answered 200 "no action" without any invocation.
C2_AnyBatchWithoutMatchNoAction ==
    \A r \in Reqs :
        (IsAlert(r) /\ Done(r) /\ HasBatch(body[r]) /\ ~HasMatch(body[r])) =>
            response[r] = <<NoAction>> /\ calls[r] = <<>>

\* C2 amended: an /alert request whose batch holds no matching record never
\* invokes run_ansible_playbook, and when the batch holds no raising record
\* either it is answered 200 with the "no action" body.
C2_NoMatchNoAction ==
    \A r \in Reqs :
        (IsAlert(r) /\ ~HasMatch(body[r])) =>
            /\ calls[r] = <<>>
            /\ (Done(r) /\ HasBatch(body[r]) /\ ~HasUnreadable(body[r])) =>
                   response[r] = <<NoAction>>

C2_Witness ==
    \E r \in Reqs :
        /\ IsAlert(r) /\ Done(r) /\ response[r] = <<NoAction>>
        /\ Len(body[r].list) = 2
        /\ body[r].list[1].alertname = "NodeExporterDown"
        /\ body[r].list[1].status = "resolved"
        /\ body[r].list[2].alertname = "OtherAlert"
        /\ body[r].list[2].status = "firing"

\* ------------------------------------------------------------------- C3
\* C3 as stated: an /alert payload that is unparseable or misses an expected
\* field ('alerts', or a record's 'labels' or 'status') is answered with the
\* generic 500 and no invocation.
C3_MalformedGivesGeneric500 ==
    \A r \in Reqs :
        (/\ IsAlert(r) /\ Done(r)
         /\ \/ body[r].json # "object"
            \/ body[r].alerts = "<absent>"
            \/ \E i \in 1 .. Len(body[r].list) : LacksField(body[r].list[i]))
        => response[r] = <<GenericError>> /\ calls[r] = <<>>

\* C3 amended: an /alert request is answered with the generic 500 exactly when
\* its body is unparseable or no object, its 'alerts' value has no length, or
\* a record that is not an object or whose 'labels' is present and not an
\* object comes before any matching record; it then invokes nothing.  A
\* missing 'alerts', 'labels', 'alertname' or 'status' is no error.
C3_RaisingGivesGeneric500 ==
    \A r \in Reqs :
        (IsAlert(r) /\ Done(r)) =>
            /\ (Verdict(body[r]) = "error") <=> (response[r] = <<GenericError>>)
            /\ (Verdict(body[r]) = "error") => calls[r] = <<>>
            /\ \A i \in 1 .. Len(response[r]) :
                   response[r][i].code = 500 /\ response[r][i].field = ""
                       => response[r][i] = GenericError

C3_Witness ==
    \E r \in Reqs :
        /\ IsAlert(r) /\ Done(r) /\ response[r] = <<GenericError>>
        /\ calls[r] = <<>>
        /\ Len(body[r].list) = 2
        /\ LacksField(body[r].list[1])
        /\ body[r].list[2].labels = "<non-dict>"

\* ------------------------------------------------------------------- C4
\* C4: when the external command exited with code 0, run_ansible_playbook
\* reports success, and the request that invoked it is answered 200 with
\* 'ansible_output' equal to the captured standard output of its own run, on
\* /alert and on /deploy alike.
C4_SuccessReturnsStdout ==
    \A r \in Reqs :
        (pc[r] \in {"returned", "done"} /\ Succeeded(outcome[r])) =>
            /\ result[r].success
            /\ Done(r) =>
                   /\ Len(response[r]) = 1
                   /\ response[r][1].code = 200
                   /\ response[r][1].field = "ansible_output"
                   /\ response[r][1].text = outcome[r].stdout

C4_Witness ==
    \E r, q \in Reqs :
        /\ IsAlert(r) /\ Done(r) /\ Succeeded(outcome[r])
        /\ IsDeploy(q) /\ Done(q) /\ Succeeded(outcome[q])
        /\ response[r][1].text = "changed=1"
        /\ response[q][1].text = "PLAY RECAP ok=2"

\* ------------------------------------------------------------------- C5
\* C5: when the external command failed, run_ansible_playbook returns a
\* failure instead of raising, and the request is answered 500 with
\* 'ansible_error' equal to the captured error stream after a non-zero exit
\* and to the stringified exception after any other failure to run.
C5_FailureReturnsErrorText ==
    \A r \in Reqs :
        (ExitedNonZero(outcome[r]) \/ FailedToRun(outcome[r])) =>
            /\ proc[r] = "ended"
            /\ pc[r] \in {"returned", "done"}
            /\ ~result[r].success
            /\ ExitedNonZero(outcome[r]) => result[r].output = outcome[r].stderr
            /\ FailedToRun(outcome[r]) => result[r].output = outcome[r].exc
            /\ Done(r) =>
                   /\ Len(response[r]) = 1
                   /\ response[r][1].code = 500
                   /\ response[r][1].field = "ansible_error"
                   /\ response[r][1].text =
                          IF ExitedNonZero(outcome[r])
                          THEN outcome[r].stderr ELSE outcome[r].exc

C5_Witness ==
    \E r, q \in Reqs :
        /\ IsAlert(r) /\ Done(r) /\ ExitedNonZero(outcome[r])
        /\ outcome[r].stdout # outcome[r].stderr
        /\ response[r][1].text = "ERROR! playbook not found"
        /\ IsDeploy(q) /\ Done(q) /\ FailedToRun(outcome[q])
        /\ response[q][1].code = 500
        /\ response[q][1].text \in ExcTexts

\* ------------------------------------------------------------------- C6
\* C6: a /deploy request invokes run_ansible_playbook exactly once with
\* SERVICE_NAME whatever its body is: its first step is always the
\* invocation, and no answer is given without it.
C6_DeployAlwaysInvokes ==
    \A r \in Reqs :
        IsDeploy(r) =>
            /\ pc[r] = "received" =>
                   calls[r] = <<>> /\ ENABLED handle_webhook_direct_begin(r)
            /\ pc[r] # "received" => PastCall(r) /\ OnceWithService(r)
            /\ Done(r) => response[r][1].field \in {"ansible_output", "ansible_error"}

C6_Witness ==
    \E r \in Reqs :
        /\ IsDeploy(r) /\ Done(r) /\ OnceWithService(r)
        /\ body[r].json = "unparseable"

\* ------------------------------------------------------------------- C7
\* C7: no request invokes the external tool more than once; once its call
\* has returned a request makes no further call, and only answers; a failed
\* call is reported by that request's own 500 response.
C7_NoRetry ==
    /\ [](\A r \in Reqs : Len(calls[r]) <= 1)
    /\ [][\A r \in Reqs :
            pc[r] \in {"returned", "done"} =>
                calls'[r] = calls[r] /\ pc'[r] \in {"returned", "done"}]_vars
    /\ [](\A r \in Reqs :
            (Done(r) /\ calls[r] # <<>> /\ ~Succeeded(outcome[r])) =>
                /\ Len(response[r]) = 1
                /\ response[r][1].code = 500
                /\ response[r][1].field = "ansible_error")

C7_Witness ==
    \E r \in Reqs :
        /\ IsAlert(r) /\ Done(r) /\ ExitedNonZero(outcome[r])
        /\ Len(calls[r]) = 1
        /\ Len(body[r].list) = 2
        /\ Matches(body[r].list[1]) /\ Matches(body[r].list[2])

\* ------------------------------------------------------------------- C8
\* C8: a request that invoked the external tool is answered only after its
\* subprocess.run call has ended, and at most once; once the call has ended
\* the request is eventually answered 200 or 500; a request whose external
\* process hangs stays unanswered for ever.
C8_Synchronous ==
    /\ [](\A r \in Reqs :
            /\ Len(response[r]) <= 1
            /\ (calls[r] # <<>> /\ response[r] # <<>>) => proc[r] = "ended"
            /\ proc[r] = "hung" => response[r] = <<>>)
    /\ [][\A r \in Reqs : proc[r] = "hung" => proc'[r] = "hung"]_vars
    /\ \A r \in Reqs :
            (proc[r] = "ended") ~>
                (Len(response[r]) = 1 /\ response[r][1].code \in {200, 500})
    /\ \A r \in Reqs : (pc[r] = "blocked") ~> (proc[r] \in {"hung", "ended"})

C8_Witness ==
    \E r, q \in Reqs :
        /\ proc[r] = "hung" /\ response[r] = <<>>
        /\ proc[q] = "ended" /\ Len(response[q]) = 1

\* ------------------------------------------------------------------- C9
\* The answer the handlers owe to a request, from its own endpoint, body and
\* run alone.
OwnReply(ep, b, o) ==
    LET text == IF Succeeded(o) THEN o.stdout
                ELSE IF ExitedNonZero(o) THEN o.stderr ELSE o.exc
        field == IF Succeeded(o) THEN "ansible_output" ELSE "ansible_error"
        code == IF Succeeded(o) THEN 200 ELSE 500
    IN  IF ep = "deploy"
        THEN Reply(code,
                   IF Succeeded(o) THEN "Direct deployment successful"
                   ELSE "Direct deployment failed", field, text)
        ELSE IF Verdict(b) = "error" THEN GenericError
        ELSE IF Verdict(b) = "none" THEN NoAction
        ELSE Reply(code,
                   IF Succeeded(o) THEN "Self-healing triggered and successful"
                   ELSE "Self-healing failed (Ansible error)", field, text)

\* The number of runs a request owes.
OwnRuns(ep, b) == IF ep = "deploy" \/ Verdict(b) = "run" THEN 1 ELSE 0

\* C9: overlapping requests do not affect one another: a handler thread that
\* has a step to take can take it whatever the other requests are doing, a
\* request that owes a run has started its own, and every answer is the one
\* its own payload and its own run determine.
C9_Independent ==
    \A r \in Reqs :
        /\ pc[r] \in {"received", "loop", "returned"} => ENABLED Handle(r)
        /\ pc[r] \in {"blocked", "returned"} => OnceWithService(r) /\ proc[r] # "none"
        /\ proc[r] = "running" => ENABLED Finish(r, ConcOutcomes)
        /\ Done(r) => Len(calls[r]) = OwnRuns(endpoint[r], body[r])
        /\ Done(r) => response[r] = <<OwnReply(endpoint[r], body[r], outcome[r])>>

C9_Witness ==
    \E r, q \in Reqs :
        /\ r # q
        /\ IsAlert(r) /\ IsAlert(q)
        /\ HasMatch(body[r]) /\ HasMatch(body[q])
        /\ proc[r] = "running" /\ proc[q] = "running"
        /\ OnceWithService(r) /\ OnceWithService(q)

\* ------------------------------------------------------------------ C10
\* C10: the /alert loop walks the batch in order and never goes past the
\* first matching record, so the request behaves as on the batch cut after
\* its first matching or raising record: a raising record ahead of the first
\* match gives the generic 500 and no invocation, one behind it changes
\* nothing.
C10_FirstMatchDecides ==
    \A r \in Reqs :
        (IsAlert(r) /\ HasBatch(body[r])) =>
            LET l == body[r].list
                k == FirstDecisive(l)
            IN  /\ pc[r] # "received" =>
                       /\ \A j \in 1 .. idx[r] - 1 :
                              j <= Len(l) /\ ~Matches(l[j]) /\ ~Unreadable(l[j])
                       /\ k > 0 => idx[r] <= k
                /\ Verdict(body[r]) = Verdict(Truncated(body[r]))
                /\ Done(r) =>
                       /\ response[r] =
                              <<OwnReply("alert", Truncated(body[r]), outcome[r])>>
                       /\ Len(calls[r]) = OwnRuns("alert", Truncated(body[r]))
                       /\ (k > 0 /\ Unreadable(l[k])) =>
                              response[r] = <<GenericError>> /\ calls[r] = <<>>

C10_Witness ==
    \E r \in Reqs :
        /\ IsAlert(r) /\ Done(r)
        /\ Len(body[r].list) = 3
        /\ ~Matches(body[r].list[1]) /\ ~Unreadable(body[r].list[1])
        /\ Matches(body[r].list[2])
        /\ Unreadable(body[r].list[3])
        /\ response[r][1].code = 200
        /\ idx[r] = 2

====
